---- MODULE Spec2Model ----
(***************************************************************************)
(* Model of subtuner's optimization pipeline                               *)
(* (src/subtuner/optimization): OptimizationEngine.optimize and its four   *)
(* passes DurationAdjuster, TemporalRebalancer, AnticipationAdjuster and   *)
(* ConstraintsValidator over a list of Subtitle records.                   *)
(*                                                                         *)
(* Times are integers in hundredths of a second (the source uses float     *)
(* seconds); every configuration used has a chars_per_sec that divides     *)
(* 100, so that char_count / chars_per_sec is exact on this grid.  A text  *)
(* is a sequence of one-character strings.  An Optional[Subtitle] is a     *)
(* sequence of length 0 (None) or 1.                                       *)
(***************************************************************************)
EXTENDS Integers, Sequences, FiniteSets, TLC

VARIABLES
    pc,                 \* position in OptimizationEngine.optimize
    config,             \* the OptimizationConfig handed to optimize
    subtitles,          \* the caller's input list
    original_overlaps,  \* engine.py: original_overlaps
    current,            \* engine.py: current
    after_duration,     \* value of current after phase 1
    after_rebalance,    \* value of current after phase 2
    after_anticipation, \* value of current after phase 3
    stats,              \* the OptimizationStatistics of the run
    result,             \* the OptimizationResults returned so far, one per call
    heap                \* the Subtitle and list objects of the run

vars == <<pc, config, subtitles, original_overlaps, current, after_duration,
          after_rebalance, after_anticipation, stats, result, heap>>

(***************************************************************************)
(* Bounds of the model.                                                    *)
(***************************************************************************)
MaxCues == 3

(***************************************************************************)
(* Program constants, in hundredths of a second.                           *)
(***************************************************************************)
TicksPerSecond == 100
MinBenefit == 10
SignificantOverlap == 50
SignificantChange == 1

Min(a, b) == IF a <= b THEN a ELSE b
Max(a, b) == IF a >= b THEN a ELSE b
Abs(a) == IF a >= 0 THEN a ELSE -a

None == <<>>
Some(x) == <<x>>

(***************************************************************************)
(* parsers/base.py: Subtitle                                               *)
(***************************************************************************)
Whitespace == {" ", "\n", "\t"}

Subtitle(index, start_time, end_time, text, metadata) ==
    [index |-> index, start_time |-> start_time, end_time |-> end_time,
     text |-> text, metadata |-> metadata]

duration(s) == s.end_time - s.start_time

\* re.sub(open + '[^' + close + ']*' + close, '', t): every leftmost run from an
\* open character to the first close character after it is deleted.
RECURSIVE RemoveTags(_, _, _)
RemoveTags(t, open, close) ==
    IF t = <<>> THEN <<>>
    ELSE IF Head(t) = open /\ \E j \in 2..Len(t) : t[j] = close
         THEN LET j == CHOOSE k \in 2..Len(t) :
                           t[k] = close /\ \A m \in 2..(k - 1) : t[m] # close
              IN  RemoveTags(SubSeq(t, j + 1, Len(t)), open, close)
         ELSE <<Head(t)>> \o RemoveTags(Tail(t), open, close)

\* str.strip()
RECURSIVE LStrip(_)
LStrip(t) ==
    IF t # <<>> /\ Head(t) \in Whitespace THEN LStrip(Tail(t)) ELSE t

RECURSIVE RStrip(_)
RStrip(t) ==
    IF t # <<>> /\ t[Len(t)] \in Whitespace
    THEN RStrip(SubSeq(t, 1, Len(t) - 1)) ELSE t

Strip(t) == RStrip(LStrip(t))

char_count(s) == Len(Strip(RemoveTags(RemoveTags(s.text, "<", ">"), "{", "}")))

with_start_time(s, start_time) ==
    Subtitle(s.index, start_time, s.end_time, s.text, s.metadata)

\* Variant of with_end_time that also trims the text.
with_end_time_TrimsText(s, end_time) ==
    Subtitle(s.index, s.start_time, end_time, Strip(s.text), s.metadata)

with_end_time(s, end_time) ==
    Subtitle(s.index, s.start_time, end_time, s.text, s.metadata)

with_times(s, start_time, end_time) ==
    Subtitle(s.index, start_time, end_time, s.text, s.metadata)

validate(s) ==
    /\ ~(s.start_time < 0)
    /\ ~(s.end_time <= s.start_time)
    /\ ~(s.text = <<>> \/ Strip(s.text) = <<>>)

(***************************************************************************)
(* optimization/statistics.py: OptimizationStatistics                      *)
(***************************************************************************)
NewStatistics ==
    [original_subtitle_count |-> 0, final_subtitle_count |-> 0,
     duration_adjustments |-> 0, total_duration_change |-> 0,
     rebalanced_pairs |-> 0, total_time_transferred |-> 0,
     anticipated_subtitles |-> 0, total_anticipation |-> 0,
     min_duration_fixes |-> 0, gap_fixes |-> 0, chronology_fixes |-> 0,
     invalid_removed |-> 0]

add_duration_change(st, change) ==
    IF Abs(change) > SignificantChange
    THEN [st EXCEPT !.duration_adjustments = @ + 1,
                    !.total_duration_change = @ + change]
    ELSE st

\* An add_rebalancing_transfer that counts the pair and forgets the amount.
add_rebalancing_transfer_NoTotal(st, transfer) ==
    IF transfer > SignificantChange
    THEN [st EXCEPT !.rebalanced_pairs = @ + 1]
    ELSE st

add_rebalancing_transfer(st, transfer) ==
    IF transfer > SignificantChange
    THEN [st EXCEPT !.rebalanced_pairs = @ + 1,
                    !.total_time_transferred = @ + transfer]
    ELSE st

add_anticipation(st, anticipation) ==
    IF anticipation > SignificantChange
    THEN [st EXCEPT !.anticipated_subtitles = @ + 1,
                    !.total_anticipation = @ + anticipation]
    ELSE st

(***************************************************************************)
(* optimization/algorithms/duration_adjuster.py: DurationAdjuster          *)
(***************************************************************************)
\* char_count / config.chars_per_sec, in hundredths of a second
ideal_duration(s, cfg) == (char_count(s) * TicksPerSecond) \div cfg.chars_per_sec

\* An adjust_duration that never extends a cue.
adjust_duration_NoExtension(cur, next_subtitle, cfg, is_overlap_allowed) ==
    with_end_time(cur, cur.start_time + duration(cur))

\* An adjust_duration that bounds the extension by the next start alone.
adjust_duration_IgnoresGap(cur, next_subtitle, cfg, is_overlap_allowed) ==
    LET target_duration ==
            Max(cfg.min_duration, Min(cfg.max_duration, ideal_duration(cur, cfg)))
        new_duration ==
            IF next_subtitle # None
            THEN Min(target_duration, next_subtitle[1].start_time - cur.start_time)
            ELSE target_duration
        final_duration == Max(new_duration, duration(cur))
    IN  with_end_time(cur, cur.start_time +
                           (IF final_duration <= 0 THEN duration(cur) ELSE final_duration))

\* Variant of adjust_duration without the "never shorten" step.
adjust_duration_MayShorten(cur, next_subtitle, cfg, is_overlap_allowed) ==
    LET target_duration ==
            Max(cfg.min_duration, Min(cfg.max_duration, ideal_duration(cur, cfg)))
        new_duration ==
            IF next_subtitle # None
            THEN IF is_overlap_allowed
                 THEN Min(target_duration,
                          next_subtitle[1].end_time - cur.start_time)
                 ELSE Min(target_duration,
                          (next_subtitle[1].start_time - cfg.min_gap) - cur.start_time)
            ELSE target_duration
        final_duration == IF new_duration <= 0 THEN duration(cur) ELSE new_duration
    IN  with_end_time(cur, cur.start_time + final_duration)

adjust_duration(cur, next_subtitle, cfg, is_overlap_allowed) ==
    LET target_duration ==
            Max(cfg.min_duration, Min(cfg.max_duration, ideal_duration(cur, cfg)))
        \* min(target_duration, max_possible_duration); float('inf') when
        \* there is no next subtitle
        new_duration ==
            IF next_subtitle # None
            THEN IF is_overlap_allowed
                 THEN Min(target_duration,
                          next_subtitle[1].end_time - cur.start_time)
                 ELSE Min(target_duration,
                          (next_subtitle[1].start_time - cfg.min_gap) - cur.start_time)
            ELSE target_duration
        extended == Max(new_duration, duration(cur))
        final_duration == IF extended <= 0 THEN duration(cur) ELSE extended
    IN  with_end_time(cur, cur.start_time + final_duration)

\* The loop body of DurationAdjuster.process for list position i (1-based).
RECURSIVE duration_loop(_, _, _, _, _, _)
duration_loop(subs, i, adjusted, st, cfg, allowed_overlaps) ==
    IF i > Len(subs) THEN [subtitles |-> adjusted, stats |-> st]
    ELSE LET next_subtitle == IF i + 1 <= Len(subs) THEN Some(subs[i + 1]) ELSE None
             is_overlap_allowed ==
                 IF next_subtitle # None
                 THEN <<i - 1, i>> \in allowed_overlaps ELSE FALSE
             adjusted_subtitle ==
                 adjust_duration(subs[i], next_subtitle, cfg, is_overlap_allowed)
             duration_change == duration(adjusted_subtitle) - duration(subs[i])
             st2 == IF Abs(duration_change) > SignificantChange
                    THEN add_duration_change(st, duration_change) ELSE st
         IN  duration_loop(subs, i + 1, Append(adjusted, adjusted_subtitle), st2,
                           cfg, allowed_overlaps)

\* A duration pass that drops the cues it cannot give a positive duration.
DurationAdjuster_process_SkipsInvalid(subs, cfg, st, allowed_overlaps) ==
    duration_loop(SelectSeq(subs, LAMBDA c : duration(c) > 0), 1, <<>>, st, cfg,
                  allowed_overlaps)

DurationAdjuster_process(subs, cfg, st, allowed_overlaps) ==
    IF subs = <<>> THEN [subtitles |-> subs, stats |-> st]
    ELSE duration_loop(subs, 1, <<>>, st, cfg, allowed_overlaps)

(***************************************************************************)
(* optimization/algorithms/rebalancer.py: TemporalRebalancer               *)
(***************************************************************************)
should_rebalance(cur, next_subtitle, cfg) ==
    LET is_current_short == duration(cur) < cfg.short_threshold
        is_next_long == duration(next_subtitle) > cfg.long_threshold
    IN  is_current_short /\ is_next_long

\* Variant of validate_rebalancing without the donor's min_duration test.
validate_rebalancing_NoMinDuration(original_current, original_next, new_current, new_next, cfg) ==
    /\ ~(new_current.start_time >= new_current.end_time)
    /\ ~(new_next.start_time >= new_next.end_time)
    /\ ~(new_next.start_time - new_current.end_time < cfg.min_gap)
    /\ ~(duration(new_current) <= duration(original_current))
    /\ ~(duration(new_next) < duration(original_current))

validate_rebalancing(original_current, original_next, new_current, new_next, cfg) ==
    /\ ~(new_current.start_time >= new_current.end_time)
    /\ ~(new_next.start_time >= new_next.end_time)
    /\ ~(new_next.start_time - new_current.end_time < cfg.min_gap)
    /\ ~(duration(new_current) <= duration(original_current))
    /\ ~(duration(new_next) < cfg.min_duration)
    /\ ~(duration(new_next) < duration(original_current))

\* A rebalance_pair that transfers the whole deficit, whatever the surplus.
rebalance_pair_FullDeficit(cur, next_subtitle, cfg) ==
    LET unchanged == [cur |-> cur, next |-> next_subtitle, transferred |-> 0]
        transfer_amount == cfg.short_threshold - duration(cur)
        new_current_end == cur.end_time + transfer_amount
        new_next_start == new_current_end + cfg.min_gap
        new_current == with_end_time(cur, new_current_end)
        new_next == with_start_time(next_subtitle, new_next_start)
    IN  IF ~should_rebalance(cur, next_subtitle, cfg) THEN unchanged
        ELSE IF transfer_amount <= 0 THEN unchanged
        ELSE IF new_next_start >= next_subtitle.end_time THEN unchanged
        ELSE IF ~validate_rebalancing(cur, next_subtitle, new_current, new_next, cfg)
             THEN unchanged
        ELSE [cur |-> new_current, next |-> new_next, transferred |-> transfer_amount]

\* Returns the tuple (new_current, new_next, transfer_amount) as a record.
rebalance_pair(cur, next_subtitle, cfg) ==
    LET unchanged == [cur |-> cur, next |-> next_subtitle, transferred |-> 0]
        current_deficit == cfg.short_threshold - duration(cur)
        next_surplus == duration(next_subtitle) - cfg.long_threshold
        transfer_amount == Min(current_deficit, next_surplus)
        new_current_end == cur.end_time + transfer_amount
        new_next_start == new_current_end + cfg.min_gap
        new_current == with_end_time(cur, new_current_end)
        new_next == with_start_time(next_subtitle, new_next_start)
    IN  IF ~should_rebalance(cur, next_subtitle, cfg) THEN unchanged
        ELSE IF transfer_amount <= 0 THEN unchanged
        ELSE IF new_next_start >= next_subtitle.end_time THEN unchanged
        ELSE IF ~validate_rebalancing(cur, next_subtitle, new_current, new_next, cfg)
             THEN unchanged
        ELSE [cur |-> new_current, next |-> new_next, transferred |-> transfer_amount]

\* The while loop of TemporalRebalancer.process; i is the 1-based position of
\* the left member of the pair.
RECURSIVE rebalance_loop(_, _, _, _)
rebalance_loop(rebalanced, i, st, cfg) ==
    IF ~(i < Len(rebalanced)) THEN [subtitles |-> rebalanced, stats |-> st]
    ELSE LET r == rebalance_pair(rebalanced[i], rebalanced[i + 1], cfg)
         IN  IF r.transferred > 0
             THEN rebalance_loop(
                      [rebalanced EXCEPT ![i] = r.cur, ![i + 1] = r.next],
                      i + 1, add_rebalancing_transfer(st, r.transferred), cfg)
             ELSE rebalance_loop(rebalanced, i + 1, st, cfg)

\* A rebalance pass that iterates over the pairs a second time.
TemporalRebalancer_process_TwoPasses(subs, cfg, st) ==
    IF Len(subs) < 2 THEN [subtitles |-> subs, stats |-> st]
    ELSE LET first == rebalance_loop(subs, 1, st, cfg)
         IN  rebalance_loop(first.subtitles, 1, first.stats, cfg)

TemporalRebalancer_process(subs, cfg, st) ==
    IF Len(subs) < 2 THEN [subtitles |-> subs, stats |-> st]
    ELSE rebalance_loop(subs, 1, st, cfg)

(***************************************************************************)
(* optimization/algorithms/anticipator.py: AnticipationAdjuster            *)
(***************************************************************************)
calculate_max_anticipation(cur, previous, cfg) ==
    IF previous = None THEN cfg.max_anticipation
    ELSE LET gap_to_previous == cur.start_time - previous[1].end_time
             available_anticipation == gap_to_previous - cfg.min_gap
         IN  Max(0, available_anticipation)

\* Variant of is_beneficial without the minimum benefit of the offset.
is_beneficial_AnyOffset(s, anticipation, cfg) ==
    IF anticipation <= 0 THEN FALSE
    ELSE IF duration(s) >= ideal_duration(s, cfg) /\ duration(s) >= cfg.min_duration
         THEN FALSE
    ELSE TRUE

\* Variant of is_beneficial that tests the size of the offset only.
is_beneficial_OffsetOnly(s, anticipation, cfg) ==
    IF anticipation <= 0 THEN FALSE
    ELSE IF anticipation < MinBenefit THEN FALSE
    ELSE TRUE

is_beneficial(s, anticipation, cfg) ==
    IF anticipation <= 0 THEN FALSE
    ELSE IF anticipation < MinBenefit THEN FALSE
    ELSE IF duration(s) >= ideal_duration(s, cfg) /\ duration(s) >= cfg.min_duration
         THEN FALSE
    ELSE TRUE

validate_anticipation(original, anticipated, previous, cfg) ==
    /\ ~(anticipated.start_time >= anticipated.end_time)
    /\ ~(duration(anticipated) <= duration(original))
    /\ (previous # None =>
            ~(anticipated.start_time - previous[1].end_time < cfg.min_gap))
    /\ ~(anticipated.start_time < 0)

\* An apply_anticipation that falls back to the largest offset that keeps the
\* start non-negative.
apply_anticipation_ClampsToZero(cur, previous, cfg) ==
    LET max_offset == calculate_max_anticipation(cur, previous, cfg)
        actual_offset == Min(Min(max_offset, cfg.max_anticipation),
                             Max(cur.start_time, 0))
        new_subtitle == with_start_time(cur, cur.start_time - actual_offset)
    IN  IF max_offset <= 0 THEN [subtitle |-> cur, offset |-> 0]
        ELSE IF ~is_beneficial(cur, actual_offset, cfg)
             THEN [subtitle |-> cur, offset |-> 0]
        ELSE IF ~validate_anticipation(cur, new_subtitle, previous, cfg)
             THEN [subtitle |-> cur, offset |-> 0]
        ELSE [subtitle |-> new_subtitle, offset |-> actual_offset]

\* Variant of apply_anticipation without the cap at max_anticipation.
apply_anticipation_Uncapped(cur, previous, cfg) ==
    LET max_offset == calculate_max_anticipation(cur, previous, cfg)
        actual_offset == max_offset
        new_subtitle == with_start_time(cur, cur.start_time - actual_offset)
    IN  IF max_offset <= 0 THEN [subtitle |-> cur, offset |-> 0]
        ELSE IF ~is_beneficial(cur, actual_offset, cfg)
             THEN [subtitle |-> cur, offset |-> 0]
        ELSE IF ~validate_anticipation(cur, new_subtitle, previous, cfg)
             THEN [subtitle |-> cur, offset |-> 0]
        ELSE [subtitle |-> new_subtitle, offset |-> actual_offset]

\* Returns the tuple (adjusted_subtitle, anticipation_amount) as a record.
apply_anticipation(cur, previous, cfg) ==
    LET max_offset == calculate_max_anticipation(cur, previous, cfg)
        actual_offset == Min(max_offset, cfg.max_anticipation)
        new_subtitle == with_start_time(cur, cur.start_time - actual_offset)
    IN  IF max_offset <= 0 THEN [subtitle |-> cur, offset |-> 0]
        ELSE IF ~is_beneficial(cur, actual_offset, cfg)
             THEN [subtitle |-> cur, offset |-> 0]
        ELSE IF ~validate_anticipation(cur, new_subtitle, previous, cfg)
             THEN [subtitle |-> cur, offset |-> 0]
        ELSE [subtitle |-> new_subtitle, offset |-> actual_offset]

RECURSIVE anticipation_loop(_, _, _, _, _)
anticipation_loop(subs, i, anticipated, st, cfg) ==
    IF i > Len(subs) THEN [subtitles |-> anticipated, stats |-> st]
    ELSE LET previous == IF anticipated # <<>>
                         THEN Some(anticipated[Len(anticipated)]) ELSE None
             r == apply_anticipation(subs[i], previous, cfg)
             st2 == IF r.offset > 0 THEN add_anticipation(st, r.offset) ELSE st
         IN  anticipation_loop(subs, i + 1, Append(anticipated, r.subtitle), st2, cfg)

AnticipationAdjuster_process(subs, cfg, st) ==
    IF subs = <<>> THEN [subtitles |-> subs, stats |-> st]
    ELSE anticipation_loop(subs, 1, <<>>, st, cfg)

(***************************************************************************)
(* optimization/algorithms/validator.py: ConstraintsValidator              *)
(***************************************************************************)
\* Returns the fixed subtitle and the updated statistics.
fix_minimum_duration(s, cfg, st) ==
    IF duration(s) >= cfg.min_duration THEN [subtitle |-> s, stats |-> st]
    ELSE [subtitle |-> with_end_time(s, s.start_time + cfg.min_duration),
          stats |-> [st EXCEPT !.min_duration_fixes = @ + 1]]

\* Variant of fix_minimum_gap without the exemption of significant overlaps.
fix_minimum_gap_AlwaysShifts(cur, previous, cfg, st) ==
    IF previous = None THEN [subtitle |-> cur, stats |-> st]
    ELSE LET current_gap == cur.start_time - previous[1].end_time
             required_start == previous[1].end_time + cfg.min_gap
         IN  IF current_gap >= cfg.min_gap THEN [subtitle |-> cur, stats |-> st]
             ELSE [subtitle |-> with_times(cur, required_start,
                                           required_start + duration(cur)),
                   stats |-> [st EXCEPT !.gap_fixes = @ + 1]]

\* Variant of fix_minimum_gap that moves the start and keeps the end.
fix_minimum_gap_KeepsEnd(cur, previous, cfg, st) ==
    IF previous = None THEN [subtitle |-> cur, stats |-> st]
    ELSE LET current_gap == cur.start_time - previous[1].end_time
             required_start == previous[1].end_time + cfg.min_gap
         IN  IF current_gap >= cfg.min_gap THEN [subtitle |-> cur, stats |-> st]
             ELSE IF current_gap < -SignificantOverlap
                  THEN [subtitle |-> cur, stats |-> st]
             ELSE [subtitle |-> with_times(cur, required_start, cur.end_time),
                   stats |-> [st EXCEPT !.gap_fixes = @ + 1]]

fix_minimum_gap(cur, previous, cfg, st) ==
    IF previous = None THEN [subtitle |-> cur, stats |-> st]
    ELSE LET current_gap == cur.start_time - previous[1].end_time
             required_start == previous[1].end_time + cfg.min_gap
         IN  IF current_gap >= cfg.min_gap THEN [subtitle |-> cur, stats |-> st]
             ELSE IF current_gap < -SignificantOverlap
                  THEN [subtitle |-> cur, stats |-> st]
             ELSE [subtitle |-> with_times(cur, required_start,
                                           required_start + duration(cur)),
                   stats |-> [st EXCEPT !.gap_fixes = @ + 1]]

is_chronologically_valid(cur, previous) ==
    IF previous = None THEN TRUE
    ELSE cur.start_time >= previous[1].start_time

has_valid_time_range(s) ==
    /\ s.start_time >= 0
    /\ s.end_time > s.start_time
    /\ duration(s) > 0

\* Variant of is_valid_subtitle that tests the times only.
is_valid_subtitle_TimesOnly(s, cfg) ==
    ~(s.start_time < 0) /\ ~(s.end_time <= s.start_time)

is_valid_subtitle(s, cfg) == validate(s)

\* An apply_all_fixes that emits the repaired cue on a chronology violation.
apply_all_fixes_EmitsRepaired(cur, previous, next_subtitle, cfg, st, is_allowed_overlap) ==
    LET fix1 == fix_minimum_duration(cur, cfg, st)
        fix2 == IF ~is_allowed_overlap
                THEN fix_minimum_gap(fix1.subtitle, previous, cfg, fix1.stats)
                ELSE fix1
    IN  IF ~is_chronologically_valid(fix2.subtitle, previous)
        THEN [subtitle |-> fix2.subtitle,
              stats |-> [fix2.stats EXCEPT !.chronology_fixes = @ + 1]]
        ELSE IF ~has_valid_time_range(fix2.subtitle)
             THEN [subtitle |-> cur, stats |-> fix2.stats]
        ELSE fix2

apply_all_fixes(cur, previous, next_subtitle, cfg, st, is_allowed_overlap) ==
    LET fix1 == fix_minimum_duration(cur, cfg, st)
        fix2 == IF ~is_allowed_overlap
                THEN fix_minimum_gap(fix1.subtitle, previous, cfg, fix1.stats)
                ELSE fix1
    IN  IF ~is_chronologically_valid(fix2.subtitle, previous)
        THEN [subtitle |-> cur,
              stats |-> [fix2.stats EXCEPT !.chronology_fixes = @ + 1]]
        ELSE IF ~has_valid_time_range(fix2.subtitle)
             THEN [subtitle |-> cur, stats |-> fix2.stats]
        ELSE fix2

\* The loop of validate_and_fix for list position i (1-based); the source's
\* enumerate index is i - 1.  A Subtitle object is always truthy, so the
\* test "fixed_subtitle and ..." is the validity test alone.
RECURSIVE validate_loop(_, _, _, _, _, _)
validate_loop(subs, i, validated, st, cfg, allowed_overlaps) ==
    IF i > Len(subs) THEN [subtitles |-> validated, stats |-> st]
    ELSE LET previous == IF validated # <<>>
                         THEN Some(validated[Len(validated)]) ELSE None
             next_subtitle == IF i + 1 <= Len(subs) THEN Some(subs[i + 1]) ELSE None
             prev_index == Len(validated) - 1
             is_allowed_overlap ==
                 IF prev_index >= 0
                 THEN <<prev_index, i - 1>> \in allowed_overlaps ELSE FALSE
             fixed == apply_all_fixes(subs[i], previous, next_subtitle, cfg, st,
                                      is_allowed_overlap)
         IN  IF is_valid_subtitle(fixed.subtitle, cfg)
             THEN validate_loop(subs, i + 1, Append(validated, fixed.subtitle),
                                fixed.stats, cfg, allowed_overlaps)
             ELSE validate_loop(subs, i + 1, validated,
                                [fixed.stats EXCEPT !.invalid_removed = @ + 1],
                                cfg, allowed_overlaps)

\* Variant of validate_and_fix that does not count the cues it removes.
validate_and_fix_Uncounted(subs, cfg, st, allowed_overlaps) ==
    [subtitles |-> validate_loop(subs, 1, <<>>, st, cfg, allowed_overlaps).subtitles,
     stats |-> [validate_loop(subs, 1, <<>>, st, cfg, allowed_overlaps).stats
                    EXCEPT !.invalid_removed = st.invalid_removed]]

validate_and_fix(subs, cfg, st, allowed_overlaps) ==
    validate_loop(subs, 1, <<>>, st, cfg, allowed_overlaps)

ConstraintsValidator_process(subs, cfg, st, allowed_overlaps) ==
    IF subs = <<>> THEN [subtitles |-> subs, stats |-> st]
    ELSE validate_and_fix(subs, cfg, st, allowed_overlaps)

(***************************************************************************)
(* optimization/engine.py: OptimizationEngine                              *)
(***************************************************************************)
\* The objects of a run: cues holds the Subtitle objects created so far (an
\* object's identity is its position in cues), lists the list objects
\* created so far, each a sequence of identities; input is the caller's
\* list and current the list the engine's variable current refers to.
NewHeap(subs) ==
    [cues |-> subs, lists |-> <<[i \in 1..Len(subs) |-> i]>>,
     input |-> 1, current |-> 1]

Deref(h, l) == [i \in 1..Len(h.lists[l]) |-> h.cues[h.lists[l][i]]]

\* Variant of NewSubtitle that writes the new field values into the receiver.
NewSubtitle_InPlace(h, self, value) ==
    [heap |-> [h EXCEPT !.cues[self] = value], id |-> self]

\* Subtitle(...) in with_start_time, with_end_time and with_times: a new
\* object holding value; the receiver self is left as it is.
NewSubtitle(h, self, value) ==
    [heap |-> [h EXCEPT !.cues = Append(@, value)], id |-> Len(h.cues) + 1]

\* subtitles.copy(): a new list object with the same elements, which
\* becomes current.
list_copy(h, l) ==
    [h EXCEPT !.lists = Append(@, h.lists[l]), !.current = Len(h.lists) + 1]

\* The objects a pass puts in its result list for the cues out_vals[k..]:
\* the cue of the list src it was computed from when the pass hands that
\* object on, a new object when the pass called with_start_time,
\* with_end_time or with_times (always, in the duration pass; in the other
\* passes exactly when the value changed).
RECURSIVE StoreAll(_, _, _, _, _, _)
StoreAll(h, src, out_vals, k, ids, always_new) ==
    IF k > Len(out_vals) THEN [heap |-> h, ids |-> ids]
    ELSE LET self == CHOOSE id \in {src[j] : j \in 1..Len(src)} :
                         h.cues[id].index = out_vals[k].index
             st == IF ~always_new /\ h.cues[self] = out_vals[k]
                   THEN [heap |-> h, id |-> self]
                   ELSE NewSubtitle(h, self, out_vals[k])
         IN  StoreAll(st.heap, src, out_vals, k + 1, Append(ids, st.id), always_new)

\* The list a pass returns becomes current: the list it was handed when
\* that list is empty, otherwise a new list object (in the rebalance pass a
\* copy of the list it was handed, whose items it then assigns).
pass_result(h, out_vals, always_new) ==
    IF h.lists[h.current] = <<>> THEN h
    ELSE LET st == StoreAll(h, h.lists[h.current], out_vals, 1, <<>>, always_new)
         IN  [cues |-> st.heap.cues, lists |-> Append(st.heap.lists, st.ids),
              input |-> h.input, current |-> Len(st.heap.lists) + 1]

\* Pairs of 0-based list positions, as in the source.
detect_original_overlaps(subs) ==
    {<<i - 1, i>> : i \in {k \in 1..(Len(subs) - 1) :
                              subs[k].end_time > subs[k + 1].start_time}}

OptimizationResult(subs, st, original_count, final_count) ==
    [subtitles |-> subs, statistics |-> st,
     original_count |-> original_count, final_count |-> final_count]

(***************************************************************************)
(* Configurations and inputs.                                              *)
(***************************************************************************)
\* config.py: the defaults of OptimizationConfig
DefaultConfig ==
    [chars_per_sec |-> 20, max_duration |-> 800, min_duration |-> 100,
     min_gap |-> 5, short_threshold |-> 80, long_threshold |-> 300,
     max_anticipation |-> 50]

\* A valid configuration whose short_threshold exceeds its min_duration.
WideConfig ==
    [chars_per_sec |-> 25, max_duration |-> 300, min_duration |-> 50,
     min_gap |-> 20, short_threshold |-> 150, long_threshold |-> 200,
     max_anticipation |-> 100]

Configs == {DefaultConfig, WideConfig}

Chars(n) == [i \in 1..n |-> "x"]

\* A cue is drawn as <<step, length, text>>: its start is the previous cue's
\* start (0 for the first) plus step, its end is its start plus length.
RECURSIVE StartOf(_, _)
StartOf(shapes, i) == IF i = 0 THEN 0 ELSE StartOf(shapes, i - 1) + shapes[i][1]

BuildCues(shapes) ==
    [i \in 1..Len(shapes) |->
        Subtitle(i - 1, StartOf(shapes, i), StartOf(shapes, i) + shapes[i][2],
                 shapes[i][3], [format |-> "srt"])]

InputsOf(shapeSet) ==
    {BuildCues(sh) : sh \in UNION {[1..n -> shapeSet] : n \in 0..MaxCues}}

\* Variant of OptimizationConfig_validate without the max_anticipation test.
OptimizationConfig_validate_NoAnticipationTest(cfg) ==
    LET checks == <<
            <<~(10 <= cfg.chars_per_sec /\ cfg.chars_per_sec <= 40),
              "chars_per_sec must be between 10 and 40">>,
            <<~(3 * TicksPerSecond <= cfg.max_duration
                    /\ cfg.max_duration <= 15 * TicksPerSecond),
              "max_duration must be between 3 and 15 seconds">>,
            <<~(TicksPerSecond \div 2 <= cfg.min_duration
                    /\ cfg.min_duration <= 2 * TicksPerSecond),
              "min_duration must be between 0.5 and 2 seconds">>,
            <<cfg.min_duration >= cfg.max_duration,
              "min_duration must be less than max_duration">>,
            <<~(TicksPerSecond \div 100 <= cfg.min_gap
                    /\ cfg.min_gap <= TicksPerSecond \div 5),
              "min_gap must be between 0.01 and 0.2 seconds">>,
            <<~(TicksPerSecond \div 2 <= cfg.short_threshold
                    /\ 2 * cfg.short_threshold <= 3 * TicksPerSecond),
              "short_threshold must be between 0.5 and 1.5 seconds">>,
            <<~(2 * TicksPerSecond <= cfg.long_threshold
                    /\ cfg.long_threshold <= 6 * TicksPerSecond),
              "long_threshold must be between 2 and 6 seconds">>,
            <<cfg.short_threshold >= cfg.long_threshold,
              "short_threshold must be less than long_threshold">> >>
        failed == SelectSeq(checks, LAMBDA c : c[1])
    IN  [i \in 1..Len(failed) |-> failed[i][2]]

\* config.py: OptimizationConfig.validate, as the list of errors it collects;
\* construction raises ConfigurationError unless the list is empty.
OptimizationConfig_validate(cfg) ==
    LET checks == <<
            <<~(10 <= cfg.chars_per_sec /\ cfg.chars_per_sec <= 40),
              "chars_per_sec must be between 10 and 40">>,
            <<~(3 * TicksPerSecond <= cfg.max_duration
                    /\ cfg.max_duration <= 15 * TicksPerSecond),
              "max_duration must be between 3 and 15 seconds">>,
            <<~(TicksPerSecond \div 2 <= cfg.min_duration
                    /\ cfg.min_duration <= 2 * TicksPerSecond),
              "min_duration must be between 0.5 and 2 seconds">>,
            <<cfg.min_duration >= cfg.max_duration,
              "min_duration must be less than max_duration">>,
            <<~(TicksPerSecond \div 100 <= cfg.min_gap
                    /\ cfg.min_gap <= TicksPerSecond \div 5),
              "min_gap must be between 0.01 and 0.2 seconds">>,
            <<~(TicksPerSecond \div 2 <= cfg.short_threshold
                    /\ 2 * cfg.short_threshold <= 3 * TicksPerSecond),
              "short_threshold must be between 0.5 and 1.5 seconds">>,
            <<~(2 * TicksPerSecond <= cfg.long_threshold
                    /\ cfg.long_threshold <= 6 * TicksPerSecond),
              "long_threshold must be between 2 and 6 seconds">>,
            <<cfg.short_threshold >= cfg.long_threshold,
              "short_threshold must be less than long_threshold">>,
            <<~(0 <= cfg.max_anticipation /\ cfg.max_anticipation <= TicksPerSecond),
              "max_anticipation must be between 0 and 1 second">> >>
        failed == SelectSeq(checks, LAMBDA c : c[1])
    IN  [i \in 1..Len(failed) |-> failed[i][2]]

\* Keyword arguments a caller may give the constructor: each field at the
\* ends of its range and just outside, and a max_duration and a
\* long_threshold below any min_duration and short_threshold.
ConfigArguments ==
    [chars_per_sec : {9, 10, 40, 41},
     max_duration : {40, 299, 300, 1500, 1501},
     min_duration : {49, 50, 200, 201},
     min_gap : {0, 1, 20, 21},
     short_threshold : {49, 50, 150, 151},
     long_threshold : {40, 199, 200, 600, 601},
     max_anticipation : {-1, 0, 100, 101}]

\* Lists whose texts have a reading time on the grid at every accepted
\* chars_per_sec.
ConfigInputs ==
    {<<>>,
     BuildCues(<< <<0, 10, <<"x", "x">>>>, <<200, 320, <<"x", "x">>>>,
                  <<330, 100, <<"x", "x">>>> >>)}

\* What a parser supplies: structurally valid cues sorted by start.
ParserBodies ==
    {<<10, Chars(1)>>, <<10, Chars(30)>>, <<100, Chars(1)>>, <<320, Chars(1)>>}

ParserShapes == {<<step, b[1], b[2]>> : step \in {0, 15, 200}, b \in ParserBodies}

\* Anything a caller may pass: unsorted, end <= start, negative start, blank text.
AnyBodies ==
    {<<-20, <<" ", "x">>>>, <<0, <<" ", "x">>>>, <<100, <<" ", "x">>>>,
     <<100, <<>>>>, <<100, <<" ">>>>, <<0, <<>>>>}

AnyShapes == {<<step, b[1], b[2]>> : step \in {-30, 200}, b \in AnyBodies}

\* Anything the rebalance pass may be handed.
RebalanceBodies ==
    {<<-10, Chars(1)>>, <<10, Chars(1)>>, <<120, Chars(1)>>, <<301, Chars(1)>>,
     <<320, Chars(1)>>}

RebalanceShapes ==
    {<<step, b[1], b[2]>> : step \in {-200, 0, 200}, b \in RebalanceBodies}

\* Anything the duration pass may be handed: a short cue, a cue of negative
\* length, a long text; the next cue starting before, shortly after or long
\* after its predecessor.
DurationBodies == {<<30, Chars(2)>>, <<-10, Chars(2)>>, <<120, Chars(60)>>}

DurationShapes ==
    {<<step, b[1], b[2]>> : step \in {-50, 80, 200}, b \in DurationBodies}

\* Anything the anticipation pass may be handed: a short cue, a cue that is
\* long enough, a cue below its reading time, a cue of negative length; the
\* next cue starting before, shortly after or long after its predecessor.
AnticipationBodies ==
    {<<10, Chars(1)>>, <<100, Chars(1)>>, <<100, Chars(60)>>, <<-10, Chars(1)>>}

AnticipationShapes ==
    {<<step, b[1], b[2]>> : step \in {-30, 20, 200}, b \in AnticipationBodies}

\* Anything the validation pass may be handed: a short cue, a cue that is
\* long enough, a cue without text, a cue of negative length; the next cue
\* starting before, shortly after or long after its predecessor.
ValidationBodies ==
    {<<10, Chars(1)>>, <<100, Chars(1)>>, <<100, <<>>>>, <<-20, Chars(1)>>}

ValidationShapes ==
    {<<step, b[1], b[2]>> : step \in {-30, 80, 200}, b \in ValidationBodies}

\* The cues of the end-to-end scenarios: "A" lasting 1.0 s and "B" lasting
\* 0.4 s, the first cue of a list at 10.0 s, a cue 2.0 s or 10.0 s after the
\* start of its predecessor.
ScenarioBodies == {<<100, <<"A">>>>, <<40, <<"B">>>>}

ScenarioShapes == {<<step, b[1], b[2]>> : step \in {200, 1000}, b \in ScenarioBodies}

\* [10.0, 11.0] "A", [12.0, 12.4] "B"
S4_Input == BuildCues(<< <<1000, 100, <<"A">>>>, <<200, 40, <<"B">>>> >>)

IsSorted(subs) ==
    \A i \in 1..(Len(subs) - 1) : subs[i].start_time <= subs[i + 1].start_time

(***************************************************************************)
(* OptimizationEngine.optimize as a state machine.                         *)
(***************************************************************************)
InitWith(inputs) ==
    /\ pc = "optimize"
    /\ config \in Configs
    /\ subtitles \in inputs
    /\ original_overlaps = {}
    /\ current = <<>>
    /\ after_duration = <<>>
    /\ after_rebalance = <<>>
    /\ after_anticipation = <<>>
    /\ stats = NewStatistics
    /\ result = <<>>
    /\ heap = NewHeap(subtitles)

Init == InitWith(InputsOf(ParserShapes))

InitAny == InitWith(InputsOf(AnyShapes))

\* engine.py 76-83: no subtitles
\* Variant of OptimizeEmpty without the early return.
OptimizeEmpty_FallsThrough ==
    /\ pc = "optimize"
    /\ subtitles = <<>>
    /\ stats' = NewStatistics
    /\ original_overlaps' = detect_original_overlaps(subtitles)
    /\ current' = subtitles
    /\ heap' = list_copy(heap, heap.input)
    /\ pc' = "phase1"
    /\ UNCHANGED <<config, subtitles, after_duration, after_rebalance,
                   after_anticipation, result>>

OptimizeEmpty ==
    /\ pc = "optimize"
    /\ subtitles = <<>>
    /\ result' = Append(result, OptimizationResult(<<>>, NewStatistics, 0, 0))
    /\ pc' = "done"
    /\ UNCHANGED <<heap, config, subtitles, original_overlaps, current, after_duration,
                   after_rebalance, after_anticipation, stats>>

\* Variant of OptimizeStart that goes on with the statistics object of the
\* previous call.
OptimizeStart_KeepsStatistics ==
    /\ pc = "optimize"
    /\ subtitles # <<>>
    /\ stats' = [stats EXCEPT !.original_subtitle_count = Len(subtitles)]
    /\ original_overlaps' = detect_original_overlaps(subtitles)
    /\ current' = subtitles
    /\ heap' = list_copy(heap, heap.input)
    /\ pc' = "phase1"
    /\ UNCHANGED <<config, subtitles, after_duration, after_rebalance,
                   after_anticipation, result>>

\* engine.py 87-90 and 134-138
OptimizeStart ==
    /\ pc = "optimize"
    /\ subtitles # <<>>
    /\ stats' = [NewStatistics EXCEPT !.original_subtitle_count = Len(subtitles)]
    /\ original_overlaps' = detect_original_overlaps(subtitles)
    /\ current' = subtitles
    /\ heap' = list_copy(heap, heap.input)
    /\ pc' = "phase1"
    /\ UNCHANGED <<config, subtitles, after_duration, after_rebalance,
                   after_anticipation, result>>

\* engine.py 140-143: the duration adjuster is called without the overlaps
Phase1DurationAdjustment ==
    /\ pc = "phase1"
    /\ LET r == DurationAdjuster_process(current, config, stats, {})
       IN  /\ current' = r.subtitles
           /\ after_duration' = r.subtitles
           /\ stats' = r.stats
           /\ heap' = pass_result(heap, r.subtitles, TRUE)
    /\ pc' = "phase2"
    /\ UNCHANGED <<config, subtitles, original_overlaps, after_rebalance,
                   after_anticipation, result>>

\* engine.py 145-148
Phase2TemporalRebalancing ==
    /\ pc = "phase2"
    /\ LET r == TemporalRebalancer_process(current, config, stats)
       IN  /\ current' = r.subtitles
           /\ after_rebalance' = r.subtitles
           /\ stats' = r.stats
           /\ heap' = pass_result(heap, r.subtitles, FALSE)
    /\ pc' = "phase3"
    /\ UNCHANGED <<config, subtitles, original_overlaps, after_duration,
                   after_anticipation, result>>

\* engine.py 150-153
Phase3AnticipatoryOffset ==
    /\ pc = "phase3"
    /\ LET r == AnticipationAdjuster_process(current, config, stats)
       IN  /\ current' = r.subtitles
           /\ after_anticipation' = r.subtitles
           /\ stats' = r.stats
           /\ heap' = pass_result(heap, r.subtitles, FALSE)
    /\ pc' = "phase4"
    /\ UNCHANGED <<config, subtitles, original_overlaps, after_duration,
                   after_rebalance, result>>

\* engine.py 155-160 and 96-111
Phase4ConstraintsValidation ==
    /\ pc = "phase4"
    /\ LET r == ConstraintsValidator_process(current, config, stats, original_overlaps)
           final == [r.stats EXCEPT !.final_subtitle_count = Len(r.subtitles)]
       IN  /\ current' = r.subtitles
           /\ stats' = final
           /\ heap' = pass_result(heap, r.subtitles, FALSE)
           /\ result' = Append(result, OptimizationResult(r.subtitles, final,
                                                          Len(subtitles),
                                                          Len(r.subtitles)))
    /\ pc' = "done"
    /\ UNCHANGED <<config, subtitles, original_overlaps, after_duration,
                   after_rebalance, after_anticipation>>

Next ==
    \/ OptimizeEmpty
    \/ OptimizeStart
    \/ Phase1DurationAdjustment
    \/ Phase2TemporalRebalancing
    \/ Phase3AnticipatoryOffset
    \/ Phase4ConstraintsValidation

Spec == Init /\ [][Next]_vars

SpecAny == InitAny /\ [][Next]_vars

\* A second call of optimize on the same engine with the same list and the
\* same configuration, once the first call has returned.
OptimizeAgain ==
    /\ pc = "done"
    /\ Len(result) = 1
    /\ pc' = "optimize"
    /\ UNCHANGED <<config, subtitles, original_overlaps, current, after_duration,
                   after_rebalance, after_anticipation, stats, result, heap>>

NextTwice == Next \/ OptimizeAgain

SpecTwice == Init /\ [][NextTwice]_vars

\* optimize on the cues of the end-to-end scenarios.
InitScenario == InitWith(InputsOf(ScenarioShapes))

SpecScenario == InitScenario /\ [][Next]_vars

\* OptimizationConfig(**arguments) followed by optimize with the object built.
InitConfig ==
    /\ pc = "construct"
    /\ config \in ConfigArguments
    /\ subtitles \in ConfigInputs
    /\ original_overlaps = {}
    /\ current = <<>>
    /\ after_duration = <<>>
    /\ after_rebalance = <<>>
    /\ after_anticipation = <<>>
    /\ stats = NewStatistics
    /\ result = <<>>
    /\ heap = NewHeap(subtitles)

\* __post_init__: validate() raises ConfigurationError or returns.
ConstructConfig ==
    /\ pc = "construct"
    /\ pc' = IF OptimizationConfig_validate(config) # <<>>
             THEN "ConfigurationError" ELSE "optimize"
    /\ UNCHANGED <<config, subtitles, original_overlaps, current, after_duration,
                   after_rebalance, after_anticipation, stats, result, heap>>

NextConfig == ConstructConfig \/ Next

SpecConfig == InitConfig /\ [][NextConfig]_vars

\* TemporalRebalancer.process on its own: current is the list handed to the
\* pass and after_duration records it.
InitRebalance ==
    /\ pc = "phase2"
    /\ config \in Configs
    /\ current \in InputsOf(RebalanceShapes)
    /\ after_duration = current
    /\ subtitles = current
    /\ original_overlaps = {}
    /\ after_rebalance = <<>>
    /\ after_anticipation = <<>>
    /\ stats = NewStatistics
    /\ result = <<>>
    /\ heap = NewHeap(subtitles)

NextRebalance == Phase2TemporalRebalancing

SpecRebalance == InitRebalance /\ [][NextRebalance]_vars

\* DurationAdjuster.process on its own: subtitles is the list handed to the
\* pass and original_overlaps its allowed_overlaps argument, any set of
\* adjacent index pairs.
InitDuration ==
    /\ pc = "duration"
    /\ config \in Configs
    /\ subtitles \in InputsOf(DurationShapes)
    /\ original_overlaps \in SUBSET {<<i - 1, i>> : i \in 1..(Len(subtitles) - 1)}
    /\ current = subtitles
    /\ after_duration = <<>>
    /\ after_rebalance = <<>>
    /\ after_anticipation = <<>>
    /\ stats = NewStatistics
    /\ result = <<>>
    /\ heap = NewHeap(subtitles)

CallDurationAdjuster ==
    /\ pc = "duration"
    /\ LET r == DurationAdjuster_process(current, config, stats, original_overlaps)
       IN  /\ current' = r.subtitles
           /\ after_duration' = r.subtitles
           /\ stats' = r.stats
           /\ heap' = pass_result(heap, r.subtitles, TRUE)
    /\ pc' = "duration_done"
    /\ UNCHANGED <<config, subtitles, original_overlaps, after_rebalance,
                   after_anticipation, result>>

NextDuration == CallDurationAdjuster

SpecDuration == InitDuration /\ [][NextDuration]_vars

\* AnticipationAdjuster.process on its own: current is the list handed to the
\* pass and after_rebalance records it.
InitAnticipation ==
    /\ pc = "phase3"
    /\ config \in Configs
    /\ current \in InputsOf(AnticipationShapes)
    /\ after_rebalance = current
    /\ after_duration = current
    /\ subtitles = current
    /\ original_overlaps = {}
    /\ after_anticipation = <<>>
    /\ stats = NewStatistics
    /\ result = <<>>
    /\ heap = NewHeap(subtitles)

NextAnticipation == Phase3AnticipatoryOffset

SpecAnticipation == InitAnticipation /\ [][NextAnticipation]_vars

\* ConstraintsValidator.process on its own: current is the list handed to the
\* pass, after_anticipation records it, and original_overlaps is the
\* allowed_overlaps argument, any set of adjacent index pairs.
InitValidation ==
    /\ pc = "phase4"
    /\ config \in Configs
    /\ current \in InputsOf(ValidationShapes)
    /\ after_anticipation = current
    /\ after_rebalance = current
    /\ after_duration = current
    /\ subtitles = current
    /\ original_overlaps \in SUBSET {<<i - 1, i>> : i \in 1..(Len(current) - 1)}
    /\ stats = NewStatistics
    /\ result = <<>>
    /\ heap = NewHeap(subtitles)

NextValidation == Phase4ConstraintsValidation

SpecValidation == InitValidation /\ [][NextValidation]_vars

(***************************************************************************)
(* Vocabulary of the properties.                                           *)
(***************************************************************************)
Returned == pc = "done" /\ result # <<>>

\* The list returned by optimize.
Out == result[1].subtitles

\* The input cue an output cue corresponds to (BuildCues numbers the input
\* cues by their 0-based list position).
InputCue(c) == subtitles[c.index + 1]

InputIsStructurallyValid == \A i \in 1..Len(subtitles) : validate(subtitles[i])

InputIsSorted == IsSorted(subtitles)

InOutput(index) == \E k \in 1..Len(Out) : Out[k].index = index

OutCue(index) == Out[CHOOSE k \in 1..Len(Out) : Out[k].index = index]

\* The transfers the rebalance pass applied, as <<receiver, donor>> pairs of
\* 0-based positions: the receiver's end is moved by an applied transfer and
\* by nothing else in the pass.
Transfers ==
    {<<i - 1, i>> : i \in {k \in 1..(Len(after_rebalance) - 1) :
                              after_rebalance[k].end_time # after_duration[k].end_time}}

\* The amount of an applied transfer: what the receiver's end moved by.
TransferAmount(p) ==
    after_rebalance[p[1] + 1].end_time - after_duration[p[1] + 1].end_time

RECURSIVE TotalTransferred(_)
TotalTransferred(pairs) ==
    IF pairs = {} THEN 0
    ELSE LET p == CHOOSE q \in pairs : TRUE
         IN  TransferAmount(p) + TotalTransferred(pairs \ {p})

\* The offset the anticipation pass tests for list position i (1-based):
\* min(max_offset, max_anticipation), the gap being taken to the predecessor
\* as the pass emitted it.
FullOffset(i) ==
    IF i = 1 THEN config.max_anticipation
    ELSE Min(Max(0, (after_rebalance[i].start_time
                        - after_anticipation[i - 1].end_time) - config.min_gap),
             config.max_anticipation)

\* The offset the anticipation pass applied to list position i.
AppliedOffset(i) == after_rebalance[i].start_time - after_anticipation[i].start_time

\* The 1-based position in the output of the cue that was the last one
\* emitted when the validation pass processed list position k (1-based) of
\* its input; 0 when nothing had been emitted.  The pass emits in input order
\* and keeps each cue's index.
PreviousPosition(k) ==
    LET earlier == {j \in 1..Len(Out) : Out[j].index < k - 1}
    IN  IF earlier = {} THEN 0 ELSE CHOOSE j \in earlier : \A m \in earlier : m <= j

PreviouslyEmitted(k) ==
    IF PreviousPosition(k) = 0 THEN None ELSE Some(Out[PreviousPosition(k)])

\* validate_and_fix's is_allowed_overlap for list position k.
IsAllowedOverlap(k) ==
    /\ PreviousPosition(k) # 0
    /\ <<PreviousPosition(k) - 1, k - 1>> \in original_overlaps

\* The cue after the min-duration repair alone, and after both repairs.
DurationRepaired(k) ==
    fix_minimum_duration(after_anticipation[k], config, NewStatistics).subtitle

Repaired(k) ==
    IF IsAllowedOverlap(k) THEN DurationRepaired(k)
    ELSE fix_minimum_gap(DurationRepaired(k), PreviouslyEmitted(k), config,
                         NewStatistics).subtitle

\* The gap fix_minimum_gap computes for list position k, and whether it
\* shifts the cue.
GapToPrevious(k) == DurationRepaired(k).start_time - PreviouslyEmitted(k)[1].end_time

GapRepairApplies(k) ==
    /\ PreviouslyEmitted(k) # None
    /\ ~IsAllowedOverlap(k)
    /\ GapToPrevious(k) < config.min_gap
    /\ ~(GapToPrevious(k) < -SignificantOverlap)

\* The repaired cue starts before the previously emitted cue.
ChronologyFallback(k) ==
    /\ PreviouslyEmitted(k) # None
    /\ Repaired(k).start_time < PreviouslyEmitted(k)[1].start_time

\* The cue validate_and_fix tests for list position k (1-based) of the list
\* handed to the validation pass: the result of apply_all_fixes against the
\* last cue validated before it.
EmittedCue(k) ==
    LET validated == validate_loop(SubSeq(after_anticipation, 1, k - 1), 1, <<>>,
                                   NewStatistics, config, original_overlaps).subtitles
        previous == IF validated # <<>> THEN Some(validated[Len(validated)]) ELSE None
        is_allowed_overlap ==
            IF Len(validated) - 1 >= 0
            THEN <<Len(validated) - 1, k - 1>> \in original_overlaps ELSE FALSE
    IN  apply_all_fixes(after_anticipation[k], previous, None, config,
                        NewStatistics, is_allowed_overlap).subtitle

RECURSIVE IsSubsequence(_, _)
IsSubsequence(a, b) ==
    IF a = <<>> THEN TRUE
    ELSE IF b = <<>> THEN FALSE
    ELSE IF Head(a) = Head(b) THEN IsSubsequence(Tail(a), Tail(b))
    ELSE IsSubsequence(a, Tail(b))

IndexAndText(subs) == [i \in 1..Len(subs) |-> <<subs[i].index, subs[i].text>>]

(***************************************************************************)
(* C1 (P1, ordering): for a sorted, structurally valid input the list      *)
(* returned by optimize is sorted by start.  The code breaks this.         *)
(***************************************************************************)
C1_Ordering ==
    (Returned /\ InputIsSorted /\ InputIsStructurallyValid)
        => \A i \in 1..(Len(Out) - 1) : Out[i].start_time <= Out[i + 1].start_time

(***************************************************************************)
(* C2 (P2, min gap): for a sorted, structurally valid input, adjacent      *)
(* output cues whose input indices are not a pair of the overlap registry  *)
(* are at least min_gap apart.  The code breaks this.                      *)
(***************************************************************************)
C2_MinGap ==
    (Returned /\ InputIsSorted /\ InputIsStructurallyValid)
        => \A i \in 1..(Len(Out) - 1) :
              <<Out[i].index, Out[i + 1].index>> \notin original_overlaps
                  => Out[i + 1].start_time - Out[i].end_time >= config.min_gap

(***************************************************************************)
(* C3 (P4, validity): whatever the input, every returned cue has           *)
(* 0 <= start < end and a text that is not empty after trimming.           *)
(***************************************************************************)
C3_Validity ==
    Returned
        => \A i \in 1..Len(Out) :
              /\ 0 <= Out[i].start_time
              /\ Out[i].start_time < Out[i].end_time
              /\ Strip(Out[i].text) # <<>>

\* An input cue with end <= start is returned repaired while another input
\* cue was removed.
C3_Witness ==
    /\ Returned
    /\ \E i \in 1..Len(Out) : InputCue(Out[i]).end_time <= InputCue(Out[i]).start_time
    /\ stats.invalid_removed > 0

(***************************************************************************)
(* C4 (P3, conservation): the (index, text) list of the output is a        *)
(* subsequence of the (index, text) list of the input.                     *)
(***************************************************************************)
C4_Conservation ==
    Returned => IsSubsequence(IndexAndText(Out), IndexAndText(subtitles))

\* Some cues were removed, and a retained one has new times.
C4_Witness ==
    /\ Returned
    /\ 0 < Len(Out) /\ Len(Out) < Len(subtitles)
    /\ \E i \in 1..Len(Out) : Out[i].end_time # InputCue(Out[i]).end_time

(***************************************************************************)
(* C5 (P7, overlap preservation): for every registry pair whose cues are   *)
(* both returned, the returned pair still overlaps or touches and neither  *)
(* cue is shorter than min_duration unless its input was.  The code breaks *)
(* this.                                                                   *)
(***************************************************************************)
C5_OverlapPreservation ==
    (Returned /\ InputIsSorted /\ InputIsStructurallyValid)
        => \A p \in original_overlaps :
              (InOutput(p[1]) /\ InOutput(p[2]))
                  => /\ OutCue(p[1]).end_time >= OutCue(p[2]).start_time
                     /\ \A x \in {p[1], p[2]} :
                           \/ duration(OutCue(x)) >= config.min_duration
                           \/ duration(subtitles[x + 1]) < config.min_duration

C7_NoShrinkage_AsStated ==
    Returned
        => \A i \in 1..Len(Out) :
              (/\ duration(InputCue(Out[i])) <= config.max_duration
               /\ <<Out[i].index, Out[i].index - 1>> \notin Transfers)
                  => duration(Out[i]) >= duration(InputCue(Out[i]))

(***************************************************************************)
(* C7 amended: a returned cue whose input lasted at most max_duration and  *)
(* which did not donate time to its predecessor in a rebalance transfer    *)
(* is at least as long as its input.                                       *)
(***************************************************************************)
C7_NoShrinkage ==
    Returned
        => \A i \in 1..Len(Out) :
              (/\ duration(InputCue(Out[i])) <= config.max_duration
               /\ <<Out[i].index - 1, Out[i].index>> \notin Transfers)
                  => duration(Out[i]) >= duration(InputCue(Out[i]))

\* A transfer was applied whose donor is returned shorter than its input,
\* while the receiver, no donor itself, is returned longer than its input.
C7_Witness ==
    /\ Returned
    /\ \E p \in Transfers :
          /\ InOutput(p[1]) /\ InOutput(p[2])
          /\ <<p[1] - 1, p[1]>> \notin Transfers
          /\ duration(subtitles[p[1] + 1]) <= config.max_duration
          /\ duration(OutCue(p[1])) > duration(subtitles[p[1] + 1])
          /\ duration(OutCue(p[2])) < duration(subtitles[p[2] + 1])

(***************************************************************************)
(* C8 (P9, anticipation bounds) as stated: for every returned cue,         *)
(* input start - output start lies in [0, max_anticipation].  The code     *)
(* moves the start of a rebalance donor and of a gap-repaired cue.         *)
(***************************************************************************)
C8_AnticipationBounds_AsStated ==
    Returned
        => \A i \in 1..Len(Out) :
              /\ 0 <= InputCue(Out[i]).start_time - Out[i].start_time
              /\ InputCue(Out[i]).start_time - Out[i].start_time
                     <= config.max_anticipation

(***************************************************************************)
(* C8 amended: for every returned cue that was not the donor of a          *)
(* rebalance transfer and whose start the validation pass did not move,    *)
(* input start - output start lies in [0, max_anticipation].               *)
(***************************************************************************)
C8_AnticipationBounds ==
    Returned
        => \A i \in 1..Len(Out) :
              (/\ <<Out[i].index - 1, Out[i].index>> \notin Transfers
               /\ Out[i].start_time = after_anticipation[Out[i].index + 1].start_time)
                  => /\ 0 <= InputCue(Out[i]).start_time - Out[i].start_time
                     /\ InputCue(Out[i]).start_time - Out[i].start_time
                            <= config.max_anticipation

\* A cue that is no donor and was not moved by validation is returned with
\* an earlier start than its input.
C8_Witness ==
    /\ Returned
    /\ \E i \in 1..Len(Out) :
          /\ <<Out[i].index - 1, Out[i].index>> \notin Transfers
          /\ Out[i].start_time = after_anticipation[Out[i].index + 1].start_time
          /\ Out[i].start_time < InputCue(Out[i]).start_time

(***************************************************************************)
(* C9 (P8, rebalance safety): whatever list the rebalance pass is handed,  *)
(* no cue leaves the pass shorter than min_duration unless it entered the  *)
(* pass shorter than min_duration.                                         *)
(***************************************************************************)
C9_RebalanceSafety ==
    pc = "phase3"
        => \A i \in 1..Len(current) :
              \/ duration(current[i]) >= config.min_duration
              \/ duration(after_duration[i]) < config.min_duration

\* A transfer was applied and shortened its donor.
C9_Witness ==
    /\ pc = "phase3"
    /\ \E p \in Transfers :
          duration(current[p[2] + 1]) < duration(after_duration[p[2] + 1])

(***************************************************************************)
(* C10 (S6, structural removal): when exactly one input cue has            *)
(* end <= start or an empty text (the others being structurally valid),    *)
(* that cue is not returned, invalid_removed is 1 and every other input    *)
(* cue is returned.  The code repairs and returns a cue with end <= start. *)
(***************************************************************************)
C10_StructuralRemoval ==
    Returned
        => \A k \in 1..Len(subtitles) :
              (/\ \/ subtitles[k].end_time <= subtitles[k].start_time
                  \/ Strip(subtitles[k].text) = <<>>
               /\ \A j \in (1..Len(subtitles)) \ {k} : validate(subtitles[j]))
                  => /\ ~InOutput(k - 1)
                     /\ stats.invalid_removed = 1
                     /\ \A j \in (1..Len(subtitles)) \ {k} : InOutput(j - 1)

(***************************************************************************)
(* C11 (scenario S4) as stated: under the default configuration the input  *)
(* [10.0, 11.0] "A", [12.0, 12.4] "B" has its cue 1 extended to            *)
(* [12.0, 13.0] by the duration pass and is returned with cue 1 at         *)
(* [11.5, 13.0], 0.5 s after the end of cue 0.                             *)
(***************************************************************************)
C11_ScenarioS4_AsStated ==
    (Returned /\ config = DefaultConfig /\ subtitles = S4_Input)
        => /\ after_duration[2].start_time = 1200
           /\ after_duration[2].end_time = 1300
           /\ Len(Out) = 2
           /\ Out[2].start_time = 1150 /\ Out[2].end_time = 1300
           /\ Out[2].start_time - Out[1].end_time = 50

(***************************************************************************)
(* C11 amended: under the default configuration the input                  *)
(* [10.0, 11.0] "A", [12.0, 12.4] "B" has its cue 1 extended to            *)
(* [12.0, 13.0] by the duration pass; the cue then lasts min_duration and  *)
(* more than its reading time, so it is not anticipated, and the output    *)
(* is [10.0, 11.0], [12.0, 13.0] with a gap of 1.0 s.                      *)
(***************************************************************************)
C11_ScenarioS4 ==
    (Returned /\ config = DefaultConfig /\ subtitles = S4_Input)
        => /\ after_duration[2].start_time = 1200
           /\ after_duration[2].end_time = 1300
           /\ Len(Out) = 2
           /\ Out[1].start_time = 1000 /\ Out[1].end_time = 1100
           /\ Out[2].start_time = 1200 /\ Out[2].end_time = 1300
           /\ Out[2].start_time - Out[1].end_time = 100
           /\ stats.anticipated_subtitles = 0

\* The scenario has run to its end.
C11_Witness ==
    /\ Returned /\ config = DefaultConfig /\ subtitles = S4_Input
    /\ stats.duration_adjustments = 1

C14_EmptyInput ==
    subtitles = <<>>
        => /\ pc \in {"optimize", "done"}
           /\ pc = "done"
                 => /\ result # <<>>
                    /\ result[1].subtitles = <<>>
                    /\ result[1].original_count = 0
                    /\ result[1].final_count = 0
                    /\ result[1].statistics = NewStatistics
                    /\ \A f \in DOMAIN result[1].statistics :
                          result[1].statistics[f] = 0

\* optimize has returned for an empty list.
C14_Witness == subtitles = <<>> /\ pc = "done" /\ result # <<>>

(***************************************************************************)
(* C15 (input immutability): throughout optimize the caller's list holds   *)
(* the same objects in the same order and every input cue keeps its        *)
(* index, start, end, text and metadata; a returned cue whose times        *)
(* differ from its input cue's is an object created during the run.        *)
(***************************************************************************)
C15_InputImmutability ==
    /\ heap.lists[heap.input] = [i \in 1..Len(subtitles) |-> i]
    /\ \A i \in 1..Len(subtitles) : heap.cues[i] = subtitles[i]
    /\ Returned
          => /\ Deref(heap, heap.current) = Out
             /\ \A k \in 1..Len(Out) :
                   (\/ Out[k].start_time # InputCue(Out[k]).start_time
                    \/ Out[k].end_time # InputCue(Out[k]).end_time)
                       => heap.lists[heap.current][k] > Len(subtitles)

\* A run has returned three cues, at least one with new times, after
\* creating objects in a pass later than the duration pass.
C15_Witness ==
    /\ Returned /\ Len(Out) = 3
    /\ \E k \in 1..Len(Out) : Out[k].end_time # InputCue(Out[k]).end_time
    /\ Len(heap.cues) > 2 * Len(subtitles)

C17_DurationHonoursRegistry ==
    (pc \in {"phase2", "phase3", "phase4", "done"} /\ subtitles # <<>>)
        => \A p \in original_overlaps :
              LET c == subtitles[p[1] + 1]
                  next == subtitles[p[2] + 1]
                  target == Max(config.min_duration,
                                Min(config.max_duration, ideal_duration(c, config)))
                  bound == Min(target, next.end_time - c.start_time)
              IN  bound > duration(c)
                      => duration(after_duration[p[1] + 1]) = bound

(***************************************************************************)
(* C18 (duration pass contract): for every input sequence, cues of         *)
(* non-positive duration included, and every overlap registry, the         *)
(* duration pass returns a sequence of the same length and order in which  *)
(* each cue keeps its start and its text and ends no earlier than before.  *)
(***************************************************************************)
DurationContract(in, out) ==
    /\ Len(out) = Len(in)
    /\ \A i \in 1..Len(in) :
          /\ out[i].index = in[i].index
          /\ out[i].start_time = in[i].start_time
          /\ out[i].text = in[i].text
          /\ out[i].end_time >= in[i].end_time

C20_RebalanceMovesTime ==
    pc = "phase3"
        => \A p \in Transfers :
              <<p[1] - 1, p[1]>> \notin Transfers
                  => LET cur == after_duration[p[1] + 1]
                         next == after_duration[p[2] + 1]
                         r == rebalance_pair(cur, next, config)
                     IN  /\ r.transferred > 0
                         /\ r.cur = after_rebalance[p[1] + 1]
                         /\ r.next.start_time = after_rebalance[p[2] + 1].start_time
                         /\ duration(r.cur) > duration(cur)
                         /\ duration(r.next) < duration(next)
                         /\ r.next.start_time - r.cur.end_time >= config.min_gap

C22_RebalanceIteration ==
    pc = "phase3"
        => /\ Len(after_rebalance) = Len(after_duration)
           /\ \A k \in 1..Len(after_duration) :
                 /\ after_rebalance[k].index = after_duration[k].index
                 /\ after_rebalance[k].text = after_duration[k].text
                 /\ (after_rebalance[k].start_time # after_duration[k].start_time)
                       => <<k - 2, k - 1>> \in Transfers
                 /\ (after_rebalance[k].end_time # after_duration[k].end_time)
                       => <<k - 1, k>> \in Transfers
           /\ after_rebalance # <<>>
                 => after_rebalance[1].start_time = after_duration[1].start_time
           /\ \A i \in 1..(Len(after_duration) - 1) :
                 LET left == [after_duration[i] EXCEPT
                                  !.start_time = after_rebalance[i].start_time]
                     r == rebalance_pair(left, after_duration[i + 1], config)
                 IN  /\ after_rebalance[i] = r.cur
                     /\ after_rebalance[i + 1].start_time = r.next.start_time
                     /\ (i + 1 = Len(after_duration)) => after_rebalance[i + 1] = r.next

\* A cue donated to its predecessor and then, shortened, received from its
\* successor.
C22_Witness ==
    /\ pc = "phase3"
    /\ \E k \in 2..(Len(after_duration) - 1) :
          /\ <<k - 2, k - 1>> \in Transfers
          /\ <<k - 1, k>> \in Transfers
          /\ ~should_rebalance(after_duration[k], after_duration[k + 1], config)

(***************************************************************************)
(* C23 (rebalance statistics), as stated: after the rebalance pass,        *)
(* rebalanced_pairs is the number of adjacent pairs replaced by a          *)
(* successful transfer and total_time_transferred the sum of those         *)
(* transfers.                                                              *)
(***************************************************************************)
C23_RebalanceStatistics_AsStated ==
    pc = "phase3"
        => /\ stats.rebalanced_pairs = Cardinality(Transfers)
           /\ stats.total_time_transferred = TotalTransferred(Transfers)

(***************************************************************************)
(* C23, amended: the statistics record only the transfers larger than      *)
(* 0.01 s; a smaller transfer is applied to the cues and not counted.      *)
(***************************************************************************)
C23_RebalanceStatistics ==
    pc = "phase3"
        => LET counted == {p \in Transfers : TransferAmount(p) > SignificantChange}
           IN  /\ stats.rebalanced_pairs = Cardinality(counted)
               /\ stats.total_time_transferred = TotalTransferred(counted)

\* Two transfers of different amounts were applied and counted.
C23_Witness ==
    /\ pc = "phase3"
    /\ \E p, q \in Transfers :
          /\ TransferAmount(p) > TransferAmount(q)
          /\ TransferAmount(q) > SignificantChange
          /\ stats.total_time_transferred = TransferAmount(p) + TransferAmount(q)
    /\ stats.rebalanced_pairs = 2

(***************************************************************************)
(* C24 (anticipation pass contract): the pass returns a sequence of the    *)
(* same length in which every cue keeps its end and its start is either    *)
(* unchanged or earlier by an offset in [0.1, max_anticipation]; a moved   *)
(* cue has start >= 0, start < end and a gap >= min_gap to its             *)
(* predecessor as emitted; the only offset tried is min(max_offset,        *)
(* max_anticipation), and when a check fails for it the cue is emitted     *)
(* unchanged.                                                              *)
(***************************************************************************)
C24_AnticipationContract ==
    pc = "phase4"
        => /\ Len(after_anticipation) = Len(after_rebalance)
           /\ \A i \in 1..Len(after_rebalance) :
                 LET in == after_rebalance[i]
                     out == after_anticipation[i]
                 IN  /\ out = [in EXCEPT !.start_time = out.start_time]
                     /\ AppliedOffset(i) \in {0, FullOffset(i)}
                     /\ (AppliedOffset(i) # 0)
                           => /\ MinBenefit <= AppliedOffset(i)
                              /\ AppliedOffset(i) <= config.max_anticipation
                              /\ out.start_time >= 0
                              /\ out.start_time < out.end_time
                              /\ (i > 1) => (out.start_time
                                                 - after_anticipation[i - 1].end_time
                                                     >= config.min_gap)
                     /\ (\/ FullOffset(i) < MinBenefit
                         \/ in.start_time - FullOffset(i) < 0
                         \/ in.start_time - FullOffset(i) >= in.end_time)
                           => out = in

\* One cue was moved by its full offset, and another, for which the full
\* offset would give a negative start and a smaller one of at least 0.1 s
\* would not, was emitted unchanged.
C24_Witness ==
    /\ pc = "phase4"
    /\ \E i, j \in 1..Len(after_rebalance) :
          /\ AppliedOffset(i) = FullOffset(i)
          /\ AppliedOffset(i) >= MinBenefit
          /\ AppliedOffset(j) = 0
          /\ after_rebalance[j].start_time - FullOffset(j) < 0
          /\ after_rebalance[j].start_time >= MinBenefit
          /\ is_beneficial(after_rebalance[j], FullOffset(j), config)

(***************************************************************************)
(* C25 (anticipation benefit test): the anticipation pass moves a cue's    *)
(* start only if the offset is at least 0.1 s and the cue's duration is    *)
(* below its reader-speed ideal (char_count / chars_per_sec) or below      *)
(* min_duration; a cue at least as long as both is never anticipated,      *)
(* whatever gap precedes it.                                               *)
(***************************************************************************)
C25_BenefitTest ==
    pc = "phase4"
        => \A i \in 1..Len(after_rebalance) :
              LET c == after_rebalance[i]
              IN  /\ (after_anticipation[i].start_time # c.start_time)
                        => /\ AppliedOffset(i) >= MinBenefit
                           /\ \/ duration(c) < ideal_duration(c, config)
                              \/ duration(c) < config.min_duration
                  /\ (/\ duration(c) >= ideal_duration(c, config)
                      /\ duration(c) >= config.min_duration)
                        => after_anticipation[i] = c

\* A cue below its reading time but not below min_duration was moved, and a
\* cue that is long enough was left alone although the full offset was
\* available.
C25_Witness ==
    /\ pc = "phase4"
    /\ \E i, j \in 1..Len(after_rebalance) :
          /\ after_anticipation[i].start_time < after_rebalance[i].start_time
          /\ duration(after_rebalance[i]) >= config.min_duration
          /\ duration(after_rebalance[j]) >= ideal_duration(after_rebalance[j], config)
          /\ duration(after_rebalance[j]) >= config.min_duration
          /\ FullOffset(j) = config.max_anticipation
          /\ after_rebalance[j].start_time >= config.max_anticipation

C28_NoOverlapRemains ==
    (Returned /\ original_overlaps = {})
        => /\ Len(Out) <= Len(after_anticipation)
           /\ \A i \in 1..(Len(Out) - 1) :
                 Out[i + 1].start_time - Out[i].end_time >= 0

(***************************************************************************)
(* C29 (registry exemption survives removals): in the validation pass, for *)
(* every registry pair (i, i+1) of input indices whose cue i is the        *)
(* previously emitted cue when cue i+1 is processed, cue i+1 is exempt     *)
(* from the min-gap repair (its start is not shifted), also when cues      *)
(* before i were removed earlier in the pass.  The code looks the pair up  *)
(* by the output position of cue i.                                        *)
(***************************************************************************)
C29_ExemptionSurvivesRemovals ==
    Returned
        => \A k \in 2..Len(after_anticipation) :
              (/\ <<k - 2, k - 1>> \in original_overlaps
               /\ PreviouslyEmitted(k) # None
               /\ PreviouslyEmitted(k)[1].index = k - 2)
                  => /\ Repaired(k) = DurationRepaired(k)
                     /\ InOutput(k - 1)
                           => OutCue(k - 1).start_time
                                  = after_anticipation[k].start_time

====
